---- MODULE Spec2Model ----
(***************************************************************************)
(* Baserow ERD viewer: the Home page (frontend/app/page.tsx) with its      *)
(* workspace/database filters, and the ERDDiagram component                *)
(* (components/ERDDiagram.tsx) with its own filters and its derived graph. *)
(***************************************************************************)
EXTENDS Integers, Sequences, FiniteSets, TLC

(***************************************************************************)
(* Bounds of the model.                                                    *)
(***************************************************************************)
MaxTables == 2
MaxRels == 1
MaxDbs == 1
MaxPropUpdates == 1
MaxGridTables == 4
MaxFields == 1

(***************************************************************************)
(* JavaScript values.  A payload is JSON, so an identifier may arrive as a *)
(* number or as its decimal text; every value carries its type.            *)
(***************************************************************************)
Undefined == <<"undefined">>
NaN == <<"nan">>
All == <<"all">>
Num(n) == <<"num", n>>
Str(n) == <<"str", n>>
Text(s) == <<"text", s>>
Bool(b) == <<"bool", b>>
Arr(s) == <<"array", s>>
NullData == <<"null">>
Data(p) == <<"data", p>>

\* Number(v): a number stays, numeric text is parsed, anything else is NaN.
Number(v) == IF v[1] \in {"num", "str"} THEN Num(v[2]) ELSE NaN

\* v.toString() of a number or of a text.
toString(v) ==
    CASE v[1] = "num" -> Str(v[2])
      [] v[1] = "nan" -> Text("NaN")
      [] OTHER -> v

\* a === b: same type and same value; NaN equals nothing.
StrictEq(a, b) == a = b /\ a # NaN

\* Set.has / Map.has compare with SameValueZero: as ===, but NaN equals NaN.
SameValueZero(a, b) == a = b

\* The truthiness `if (v)` and `v || w` test.
Truthy(v) ==
    CASE v[1] = "num" -> v[2] # 0
      [] v[1] = "str" -> TRUE
      [] v[1] = "text" -> v[2] # ""
      [] v[1] = "bool" -> v[2]
      [] v[1] = "array" -> TRUE
      [] OTHER -> FALSE

\* a || b
OrElse(a, b) == IF Truthy(a) THEN a ELSE b

\* The template literal `${prefix}${n}` for a number n.
Template(prefix, v) == Text(prefix \o (IF v = NaN THEN "NaN" ELSE ToString(v[2])))

\* An object held where undefined may be held too, and obj?.field on it.
Obj(o) == <<"object", o>>
Opt(obj, field) == IF obj[1] = "object" THEN obj[2][field] ELSE Undefined

\* JSON null.
Null == <<"null">>

(***************************************************************************)
(* Text by the character, for the names the field classification reads.    *)
(***************************************************************************)
UpperCase == <<"A", "B", "C", "D", "E", "F", "G", "H", "I", "J", "K", "L", "M",
               "N", "O", "P", "Q", "R", "S", "T", "U", "V", "W", "X", "Y", "Z">>
LowerCase == <<"a", "b", "c", "d", "e", "f", "g", "h", "i", "j", "k", "l", "m",
               "n", "o", "p", "q", "r", "s", "t", "u", "v", "w", "x", "y", "z">>

\* The characters of the names that occur as a table's or a field's name.
Chars(name) ==
    CASE name = "Users" -> <<"U", "s", "e", "r", "s">>
      [] name = "Orders" -> <<"O", "r", "d", "e", "r", "s">>
      [] name = "Items" -> <<"I", "t", "e", "m", "s">>
      [] name = "Tags" -> <<"T", "a", "g", "s">>
      [] name = "Notes" -> <<"N", "o", "t", "e", "s">>
      [] name = "Files" -> <<"F", "i", "l", "e", "s">>
      [] name = "id" -> <<"i", "d">>
      [] name = "name" -> <<"n", "a", "m", "e">>
      [] name = "users_id" -> <<"u", "s", "e", "r", "s", "_", "i", "d">>
      [] name = "Users_ID" -> <<"U", "s", "e", "r", "s", "_", "I", "D">>
      [] name = "orders_id" -> <<"o", "r", "d", "e", "r", "s", "_", "i", "d">>

\* s.toLowerCase()
toLowerCase(chars) ==
    [i \in 1..Len(chars) |->
        IF \E k \in 1..Len(UpperCase) : UpperCase[k] = chars[i]
        THEN LowerCase[CHOOSE k \in 1..Len(UpperCase) : UpperCase[k] = chars[i]]
        ELSE chars[i]]

\* s.includes(part)
includes(chars, part) ==
    \E i \in 0..(Len(chars) - Len(part)) : SubSeq(chars, i + 1, i + Len(part)) = part

(***************************************************************************)
(* Names and their collation.  localeCompare is modelled on the names that *)
(* occur: Collation lists them in the order localeCompare gives.           *)
(***************************************************************************)
IdDigits == <<0, 1, 2>>
DatabaseNames == <<"Sales", "Core", "People">>
WorkspaceNames == <<"Zoo", "Main", "Lab">>
Collation ==
    <<"Core">>
    \o [i \in 1..Len(IdDigits) |-> "Database " \o ToString(IdDigits[i])]
    \o <<"Database NaN", "Lab", "Main", "People", "Sales", "Unknown Workspace">>
    \o [i \in 1..Len(IdDigits) |-> "Workspace " \o ToString(IdDigits[i])]
    \o <<"Workspace NaN", "Zoo">>
Rank(name) == CHOOSE i \in 1..Len(Collation) : Collation[i] = name[2]
localeCompare(a, b) == Rank(a) - Rank(b)

RECURSIVE InsertByName(_, _)
InsertByName(sorted, e) ==
    IF sorted = <<>> THEN <<e>>
    ELSE LET last == sorted[Len(sorted)]
         IN IF localeCompare(last.name, e.name) <= 0
            THEN Append(sorted, e)
            ELSE Append(InsertByName(SubSeq(sorted, 1, Len(sorted) - 1), e), last)

\* list.sort((a, b) => a.name.localeCompare(b.name)): a stable sort by name.
RECURSIVE SortByName(_)
SortByName(list) ==
    IF list = <<>> THEN <<>>
    ELSE InsertByName(SortByName(SubSeq(list, 1, Len(list) - 1)), list[Len(list)])

(***************************************************************************)
(* Array helpers.                                                          *)
(***************************************************************************)
Range(s) == {s[i] : i \in 1..Len(s)}

\* array.filter(...).length
Count(s, Test(_)) == Cardinality({i \in 1..Len(s) : Test(s[i])})

\* array.find(...): the first element passing the test, or undefined.
Find(s, Test(_)) ==
    IF \E i \in 1..Len(s) : Test(s[i])
    THEN Obj(s[CHOOSE i \in 1..Len(s) : Test(s[i]) /\ \A j \in 1..(i - 1) : ~Test(s[j])])
    ELSE Undefined

\* The insertion order of a Set filled from s: first occurrences, in order.
RECURSIVE Distinct(_)
Distinct(s) ==
    IF s = <<>> THEN <<>>
    ELSE LET front == Distinct(SubSeq(s, 1, Len(s) - 1))
             x == s[Len(s)]
         IN IF \E i \in 1..Len(front) : SameValueZero(front[i], x)
            THEN front ELSE Append(front, x)

(***************************************************************************)
(* Payloads of GET /api/erd (interface ERDData).  Ids are drawn as numbers *)
(* and as numeric text; the database and workspace lists are optional.     *)
(***************************************************************************)
TableNames == <<"Users", "Orders", "Items", "Tags", "Notes", "Files">>
DatabaseIdVals == {Num(0), Num(1), Str(1)}
WorkspaceIdVals == {Num(1), Str(1), Num(2)}
RelIdVals == {Num(1), Str(1), Num(2)}
DbListIdVals == {Num(1), Str(2)}

DatabaseNameOf(id) == Text(DatabaseNames[Number(id)[2] + 1])
WorkspaceNameOf(id) == Text(WorkspaceNames[Number(id)[2] + 1])

\* A scope is the <<database_id, workspace_id>> pair a table carries.
FullScopes == DatabaseIdVals \X WorkspaceIdVals
TwoScopes == {<<Num(1), Num(1)>>, <<Num(2), Num(2)>>}

MkTable(i, scope) ==
    [id |-> Num(i), name |-> Text(TableNames[i]),
     database_id |-> scope[1], database_name |-> DatabaseNameOf(scope[1]),
     workspace_id |-> scope[2], workspace_name |-> WorkspaceNameOf(scope[2]),
     fields |-> <<>>]

TableSeqs(scopes, n) ==
    UNION {{[i \in 1..k |-> MkTable(i, f[i])] : f \in [1..k -> scopes]} : k \in 0..n}

Rels ==
    {[source_table_id |-> s, target_table_id |-> t, field_name |-> Text("link")] :
        s \in RelIdVals, t \in RelIdVals}
RelSeqs(n) == UNION {[1..k -> Rels] : k \in 0..n}
CanonRels == <<[source_table_id |-> Num(2), target_table_id |-> Num(1),
                field_name |-> Text("link")]>>

DbEntries ==
    {[id |-> d, name |-> DatabaseNameOf(d), workspace_id |-> w,
      workspace_name |-> WorkspaceNameOf(w), table_count |-> c,
      has_tables |-> Undefined] :
        d \in DbListIdVals, w \in WorkspaceIdVals, c \in {Undefined, Num(5)}}
DbSeqs(n) == UNION {[1..k -> DbEntries] : k \in 0..n}

Payload(ts, rs, dbs, wss) ==
    [tables |-> Arr(ts), relationships |-> Arr(rs), databases |-> dbs, workspaces |-> wss]

\* Every table list against a fixed relationship, databases derived.
TablePayloads ==
    {Payload(ts, CanonRels, Undefined, Undefined) : ts \in TableSeqs(FullScopes, MaxTables)}
\* Every relationship list against plainly typed tables.
RelPayloads ==
    {Payload(ts, rs, Undefined, Undefined) :
        ts \in TableSeqs(TwoScopes, MaxTables), rs \in RelSeqs(MaxRels)}
\* Every explicit database list (the empty one included), with as many tables.
DbPayloads ==
    {Payload(ts, CanonRels, Arr(ds), Undefined) :
        ts \in TableSeqs(TwoScopes, MaxDbs), ds \in DbSeqs(MaxDbs)}

\* Tables of one database whose database_name and workspace_name may be absent.
OneScope == <<Num(1), Num(1)>>
Unnamed(t) == [t EXCEPT !.database_name = Undefined, !.workspace_name = Undefined]
UnnamedTableSeqs(n) ==
    UNION {{[i \in 1..k |-> IF f[i] THEN Unnamed(MkTable(i, OneScope))
                                    ELSE MkTable(i, OneScope)] :
               f \in [1..k -> BOOLEAN]} : k \in 1..n}
UnnamedPayloads ==
    {Payload(ts, CanonRels, Undefined, Undefined) : ts \in UnnamedTableSeqs(MaxTables)}

\* Tables that share one database and one workspace and name neither, against
\* no relationship and against every single one.
SharedScopes == {<<d, Num(1)>> : d \in DatabaseIdVals} \cup {<<Num(1), Str(1)>>}
SharedScopeTableSeqs ==
    {[i \in 1..k |-> Unnamed(MkTable(i, scope))] : k \in 1..MaxTables, scope \in SharedScopes}
SharedScopePayloads ==
    {Payload(ts, rs, Undefined, Undefined) :
        ts \in SharedScopeTableSeqs, rs \in RelSeqs(1)}

\* Explicit database and workspace lists of two entries, repeated ids included,
\* against tables of their scopes and against a repeated table.
ListedDbs ==
    {[id |-> Num(1), name |-> Text("Core"), workspace_id |-> Num(1),
      workspace_name |-> Text("Main"), table_count |-> Undefined,
      has_tables |-> Bool(FALSE)],
     [id |-> Num(2), name |-> Text("People"), workspace_id |-> Num(2),
      workspace_name |-> Text("Lab"), table_count |-> Undefined,
      has_tables |-> Undefined]}
ListedWss == {[id |-> Num(1), name |-> Text("Main")], [id |-> Num(2), name |-> Text("Lab")]}
RepeatedTable == <<MkTable(1, OneScope), MkTable(1, OneScope)>>
ListedPayloads ==
    {Payload(ts, CanonRels, Arr(<<d1, d2>>), Arr(<<w1, w2>>)) :
        ts \in TableSeqs(TwoScopes, 1) \cup {RepeatedTable},
        d1 \in ListedDbs, d2 \in ListedDbs, w1 \in ListedWss, w2 \in ListedWss}

\* Tables the interface does not allow: no name, a database_id that is no number.
BadId == Text("abc")
MalformedTables ==
    {[MkTable(1, OneScope) EXCEPT !.name = Undefined],
     [MkTable(1, OneScope) EXCEPT !.database_id = BadId]}
MalformedPayloads ==
    {Payload(<<t>>, CanonRels, Undefined, Undefined) : t \in MalformedTables}

\* Bodies whose tables member is no sequence: absent, or the empty text.
BrokenPayloads ==
    {[tables |-> ts, relationships |-> Arr(CanonRels),
      databases |-> Undefined, workspaces |-> Undefined] : ts \in {Undefined, Text("")}}

\* Enough tables of one database to fill more than one row of the grid.
GridTableSeqs == {[i \in 1..k |-> MkTable(i, OneScope)] : k \in 3..MaxGridTables}
GridPayloads == {Payload(ts, CanonRels, Undefined, Undefined) : ts \in GridTableSeqs}

\* Tables with fields: plain fields with names that are, and are not,
\* "{table name}_id" in some letter case, and fields of the link type or another,
\* with and without a linked table id.
FieldNames == {"id", "name", "users_id", "Users_ID", "orders_id"}
FieldTypes == {"link_row", "text"}
LinkIdVals == {Undefined, Null, Num(2)}
MkField(n, ty, l) ==
    [id |-> Num(1), name |-> Text(n), type |-> Text(ty), link_row_table_id |-> l]
Fields ==
    {MkField(n, "text", Undefined) : n \in FieldNames}
    \cup {MkField("name", ty, l) : ty \in FieldTypes, l \in LinkIdVals}
FieldSeqs(n) == UNION {[1..k -> Fields] : k \in 0..n}
FieldTableSeqs ==
    {<<[MkTable(j, OneScope) EXCEPT !.fields = fs]>> :
        j \in 1..2, fs \in FieldSeqs(MaxFields)}
FieldPayloads == {Payload(ts, CanonRels, Undefined, Undefined) : ts \in FieldTableSeqs}

\* Bodies of GET /api/erd as ERDPage reads them: applications holding their
\* tables, and the relationships of all of them.
AppOne(ts) == [id |-> Num(1), name |-> Text("Core"), tables |-> ts]
AppTwo == [id |-> Num(2), name |-> Text("People"), tables |-> <<MkTable(3, <<Num(2), Num(2)>>)>>]
AppTableSeqs == TableSeqs({OneScope}, MaxTables) \cup GridTableSeqs
ApplicationLists ==
    {<<>>} \cup {<<AppOne(ts)>> : ts \in AppTableSeqs}
           \cup {<<AppOne(ts), AppTwo>> : ts \in AppTableSeqs}
CrossRels == <<[source_table_id |-> Num(3), target_table_id |-> Num(1),
                field_name |-> Text("link")]>>
PageRelSeqs == RelSeqs(MaxRels) \cup {CrossRels}
PagePayloads ==
    {[applications |-> Arr(apps), relationships |-> Arr(rs)] :
        apps \in ApplicationLists, rs \in PageRelSeqs}
    \cup {[applications |-> Undefined, relationships |-> Arr(<<>>)]}
AppIds == {Str(1), Str(2), Str(3)}

Payloads ==
    TablePayloads \cup RelPayloads \cup DbPayloads \cup UnnamedPayloads
    \cup ListedPayloads \cup MalformedPayloads \cup BrokenPayloads \cup GridPayloads
    \cup FieldPayloads \cup SharedScopePayloads

(***************************************************************************)
(* Home (frontend/app/page.tsx): the memoised derivations.  `data` is the  *)
(* erdData state: NullData or Data(payload).                               *)
(***************************************************************************)
HasList(data, field) ==
    /\ data # NullData
    /\ data[2][field] # Undefined
    /\ Len(data[2][field][2]) > 0

\* !erdData?.tables
TablesMissing(data) == data = NullData \/ ~Truthy(data[2].tables)

\* erdData.tables, an array, or "" (whose filter/forEach sees no element).
TablesOf(data) == IF data[2].tables[1] = "array" THEN data[2].tables[2] ELSE <<>>

\* erdData.tables.filter(t => Number(t.database_id) === id).length
TableCountOf(data, id) ==
    Num(Count(TablesOf(data), LAMBDA t : StrictEq(Number(t.database_id), id)))

\* The fallback path is skipped without tables.
NoTables(data) == TablesMissing(data) \/ Len(TablesOf(data)) = 0

allDatabasesFromList(data) ==
    LET dbs == data[2].databases[2]
        entry(db) ==
            LET tableCount == IF db.table_count # Undefined THEN db.table_count
                              ELSE TableCountOf(data, db.id)
                hasTables == IF db.has_tables # Undefined THEN db.has_tables
                             ELSE Bool(tableCount[2] > 0)
            IN [id |-> db.id, name |-> db.name, workspace_id |-> db.workspace_id,
                workspace_name |-> db.workspace_name,
                tableCount |-> tableCount, hasTables |-> hasTables]
    IN [i \in 1..Len(dbs) |-> entry(dbs[i])]

\* uniqueDatabaseIds: the Set filled by the forEach over the tables.
uniqueDatabaseIds(data) ==
    LET kept == SelectSeq(TablesOf(data), LAMBDA t : Truthy(t.database_id))
    IN Distinct([i \in 1..Len(kept) |-> Number(kept[i].database_id)])

allDatabasesFromTables(data) ==
    LET ids == uniqueDatabaseIds(data)
        entry(dbId) ==
            LET sampleTable == Find(TablesOf(data),
                                    LAMBDA t : StrictEq(Number(t.database_id), dbId))
                tableCount == TableCountOf(data, dbId)
            IN [id |-> dbId,
                name |-> OrElse(Opt(sampleTable, "database_name"),
                                Template("Database ", dbId)),
                workspace_id |-> Number(Opt(sampleTable, "workspace_id")),
                workspace_name |-> OrElse(Opt(sampleTable, "workspace_name"),
                                          Text("Unknown Workspace")),
                tableCount |-> tableCount, hasTables |-> Bool(tableCount[2] > 0)]
    IN SortByName([i \in 1..Len(ids) |-> entry(ids[i])])

allDatabases(data) ==
    IF HasList(data, "databases") THEN allDatabasesFromList(data)
    ELSE IF NoTables(data) THEN <<>>
    ELSE allDatabasesFromTables(data)

allWorkspacesFromList(data) ==
    LET wss == data[2].workspaces[2]
        entry(ws) ==
            [id |-> ws.id, name |-> ws.name,
             databaseCount |->
                 Num(Count(allDatabases(data), LAMBDA db : StrictEq(db.workspace_id, ws.id))),
             tableCount |->
                 Num(Count(TablesOf(data), LAMBDA t : StrictEq(Number(t.workspace_id), ws.id)))]
    IN [i \in 1..Len(wss) |-> entry(wss[i])]

uniqueWorkspaceIds(data) ==
    LET kept == SelectSeq(TablesOf(data), LAMBDA t : Truthy(t.workspace_id))
    IN Distinct([i \in 1..Len(kept) |-> Number(kept[i].workspace_id)])

allWorkspacesFromTables(data) ==
    LET ids == uniqueWorkspaceIds(data)
        entry(wsId) ==
            LET inWs(t) == StrictEq(Number(t.workspace_id), wsId)
                sampleTable == Find(TablesOf(data), inWs)
                databaseIds ==
                    {Number(t.database_id) :
                        t \in {u \in Range(TablesOf(data)) : inWs(u) /\ Truthy(u.database_id)}}
            IN [id |-> wsId,
                name |-> OrElse(Opt(sampleTable, "workspace_name"),
                                Template("Workspace ", wsId)),
                databaseCount |-> Num(Cardinality(databaseIds)),
                tableCount |-> Num(Count(TablesOf(data), inWs))]
    IN SortByName([i \in 1..Len(ids) |-> entry(ids[i])])

allWorkspaces(data) ==
    IF HasList(data, "workspaces") THEN allWorkspacesFromList(data)
    ELSE IF NoTables(data) THEN <<>>
    ELSE allWorkspacesFromTables(data)

\* The memo named filteredDatabases: allDatabases narrowed to the workspace.
filteredDatabases(data, selWs) ==
    LET dbs == allDatabases(data)
    IN IF Len(dbs) = 0 THEN <<>>
       ELSE IF selWs = All THEN dbs
       ELSE SelectSeq(dbs, LAMBDA db : StrictEq(db.workspace_id, Number(selWs)))

\* Faulty variant: the table filter comparing the raw workspace_id.
filteredTables_RawWorkspace(data, selWs, selDb) ==
    IF TablesMissing(data) THEN <<>>
    ELSE LET byWs == IF selWs # All
                     THEN SelectSeq(TablesOf(data),
                              LAMBDA t : StrictEq(t.workspace_id, Number(selWs)))
                     ELSE TablesOf(data)
         IN IF selDb # All
            THEN SelectSeq(byWs, LAMBDA t : StrictEq(Number(t.database_id), Number(selDb)))
            ELSE byWs

\* The memo named filteredTables: the workspace step, then the database step.
filteredTables(data, selWs, selDb) ==
    IF TablesMissing(data) THEN <<>>
    ELSE LET byWs == IF selWs # All
                     THEN SelectSeq(TablesOf(data),
                              LAMBDA t : StrictEq(Number(t.workspace_id), Number(selWs)))
                     ELSE TablesOf(data)
         IN IF selDb # All
            THEN SelectSeq(byWs, LAMBDA t : StrictEq(Number(t.database_id), Number(selDb)))
            ELSE byWs

\* What the database selector lists: the filtered databases, recounted.
databasesWithCorrectCounts(data, selWs) ==
    IF TablesMissing(data) THEN <<>>
    ELSE LET dbs == filteredDatabases(data, selWs)
             entry(db) ==
                 LET tableCount == TableCountOf(data, db.id)
                 IN [db EXCEPT !.tableCount = tableCount,
                               !.hasTables = Bool(tableCount[2] > 0)]
         IN [i \in 1..Len(dbs) |-> entry(dbs[i])]

\* The list view: one card per filtered table, and under "Relationships" one
\* card per relationship of the payload.
tableCards(data, mode, selWs, selDb) ==
    IF data # NullData /\ mode = "list" THEN filteredTables(data, selWs, selDb) ELSE <<>>

relationshipCards(data, mode) ==
    IF data # NullData /\ mode = "list" /\ Len(data[2].relationships[2]) > 0
    THEN data[2].relationships[2]
    ELSE <<>>

(***************************************************************************)
(* ERDDiagram (components/ERDDiagram.tsx): the derivations of              *)
(* ERDDiagramInner and of its WorkspaceAndDatabaseFilter panel.            *)
(***************************************************************************)
\* workspaces: a Map keyed by the raw workspace_id, the last table's entry kept.
workspaces(tables) ==
    LET keys == Distinct([i \in 1..Len(tables) |-> tables[i].workspace_id])
        entry(k) ==
            LET last == CHOOSE i \in 1..Len(tables) :
                            /\ SameValueZero(tables[i].workspace_id, k)
                            /\ \A j \in (i + 1)..Len(tables) :
                                   ~SameValueZero(tables[j].workspace_id, k)
            IN [id |-> k, name |-> tables[last].workspace_name]
    IN SortByName([i \in 1..Len(keys) |-> entry(keys[i])])

\* databases: a Map keyed by Number(database_id), the first table's entry kept.
databases(tables) ==
    LET ids == Distinct([i \in 1..Len(tables) |-> Number(tables[i].database_id)])
        entry(dbId) ==
            LET first == Find(tables, LAMBDA t : SameValueZero(Number(t.database_id), dbId))
            IN [id |-> dbId, name |-> first[2].database_name,
                workspace_id |-> Number(first[2].workspace_id),
                tableCount |->
                    Num(Count(tables, LAMBDA t : StrictEq(Number(t.database_id), dbId)))]
    IN SortByName([i \in 1..Len(ids) |-> entry(ids[i])])

\* WorkspaceAndDatabaseFilter: the databases its selector lists.
dgmFilteredDatabases(dbs, selWs) ==
    IF selWs = All THEN dbs
    ELSE SelectSeq(dbs, LAMBDA db : StrictEq(db.workspace_id, Number(selWs)))

\* ERDDiagramInner's filteredTables.
dgmFilteredTables(tables, selWs, selDb) ==
    LET byWs == IF selWs # All
                THEN SelectSeq(tables,
                         LAMBDA t : StrictEq(Number(t.workspace_id), Number(selWs)))
                ELSE tables
    IN IF selDb # All
       THEN SelectSeq(byWs, LAMBDA t : StrictEq(Number(t.database_id), Number(selDb)))
       ELSE byWs

\* Faulty variant: a relationship kept when its source alone is a filtered table.
filteredRelationships_SourceOnly(rels, fTables) ==
    LET tableIds == {t.id : t \in Range(fTables)}
        has(v) == \E id \in tableIds : SameValueZero(id, v)
    IN SelectSeq(rels, LAMBDA rel : has(rel.source_table_id))

\* filteredRelationships: both endpoints in the Set of the filtered tables' ids.
filteredRelationships(rels, fTables) ==
    LET tableIds == {t.id : t \in Range(fTables)}
        has(v) == \E id \in tableIds : SameValueZero(id, v)
    IN SelectSeq(rels, LAMBDA rel : has(rel.source_table_id) /\ has(rel.target_table_id))

\* The grid of the nodes effect.
GridColumns == 3
ColumnWidth == 300
RowHeight == 400
GridOffset == 50

\* Faulty variant: every field whose name contains "id" marked primary.
nodeFields_AnyId(table) ==
    [k \in 1..Len(table.fields) |->
        LET field == table.fields[k]
            lower == toLowerCase(Chars(field.name[2]))
        IN [id |-> field.id, name |-> field.name, type |-> field.type,
            link_row_table_id |-> field.link_row_table_id,
            isPrimary |-> Bool(includes(lower, <<"i", "d">>)),
            isForeign |-> Bool(field.type = Text("link_row")
                               \/ field.link_row_table_id # Undefined)]]

\* data.fields of a node: the table's fields, each with its two marks.
nodeFields(table) ==
    [k \in 1..Len(table.fields) |->
        LET field == table.fields[k]
            lower == toLowerCase(Chars(field.name[2]))
        IN [id |-> field.id, name |-> field.name, type |-> field.type,
            link_row_table_id |-> field.link_row_table_id,
            isPrimary |-> Bool(/\ includes(lower, <<"i", "d">>)
                               /\ lower = toLowerCase(Chars(table.name[2]))
                                          \o <<"_", "i", "d">>),
            isForeign |-> Bool(field.type = Text("link_row")
                               \/ field.link_row_table_id # Undefined)]]

\* Faulty variant: row and column taken the wrong way round.
initialNodes_Transposed(fTables) ==
    [i \in 1..Len(fTables) |->
        LET index == i - 1
            row == index % GridColumns
            col == index \div GridColumns
        IN [id |-> toString(fTables[i].id),
            position |-> [x |-> col * ColumnWidth + GridOffset,
                          y |-> row * RowHeight + GridOffset],
            label |-> IF fTables[i].name = Undefined THEN Text("undefined")
                      ELSE fTables[i].name,
            fields |-> nodeFields(fTables[i])]]

initialNodes(fTables) ==
    [i \in 1..Len(fTables) |->
        LET index == i - 1
            row == index \div GridColumns
            col == index % GridColumns
        IN [id |-> toString(fTables[i].id),
            position |-> [x |-> col * ColumnWidth + GridOffset,
                          y |-> row * RowHeight + GridOffset],
            label |-> IF fTables[i].name = Undefined THEN Text("undefined")
                      ELSE fTables[i].name,
            fields |-> nodeFields(fTables[i])]]

initialEdges(fRels) ==
    [i \in 1..Len(fRels) |->
        [id |-> Text("e" \o ToString(i - 1)),
         source |-> toString(fRels[i].source_table_id),
         target |-> toString(fRels[i].target_table_id),
         label |-> fRels[i].field_name]]

(***************************************************************************)
(* ERDDiagram without filters (the component as first written): nodes and   *)
(* edges are computed from the props at every render.                       *)
(***************************************************************************)
plainNodes(tables) ==
    [i \in 1..Len(tables) |->
        LET index == i - 1
            row == index \div GridColumns
            col == index % GridColumns
        IN [id |-> toString(tables[i].id),
            position |-> [x |-> col * ColumnWidth + GridOffset,
                          y |-> row * RowHeight + GridOffset],
            label |-> tables[i].name,
            fields |-> nodeFields(tables[i])]]

plainEdges(relationships) ==
    [i \in 1..Len(relationships) |->
        [id |-> Text("e" \o ToString(i - 1)),
         source |-> toString(relationships[i].source_table_id),
         target |-> toString(relationships[i].target_table_id),
         label |-> relationships[i].field_name]]

(***************************************************************************)
(* ERDPage (the page of one application): the nodes and edges its           *)
(* fetchERDData builds.                                                     *)
(***************************************************************************)
PageOffsetX == 200
PageOffsetY == 100
PageColumnWidth == 300
PageRowHeight == 300

\* data.applications.find(app => app.id.toString() === appId)
selectedApp(data, id) == Find(data.applications[2], LAMBDA app : toString(app.id) = id)

flowNodes(app) ==
    [i \in 1..Len(app.tables) |->
        LET index == i - 1
        IN [id |-> toString(app.tables[i].id),
            position |-> [x |-> PageOffsetX + (index % GridColumns) * PageColumnWidth,
                          y |-> PageOffsetY + (index \div GridColumns) * PageRowHeight],
            label |-> app.tables[i].name]]

flowEdges(data, app) ==
    LET exists(id) == \E t \in Range(app.tables) : StrictEq(t.id, id)
        kept == SelectSeq(data.relationships[2],
                    LAMBDA rel : exists(rel.source_table_id) /\ exists(rel.target_table_id))
    IN [i \in 1..Len(kept) |->
           [id |-> Text("e-" \o ToString(i - 1)),
            source |-> toString(kept[i].source_table_id),
            target |-> toString(kept[i].target_table_id),
            label |-> kept[i].field_name]]

(***************************************************************************)
(* State.  host says which component is the root under study: the Home     *)
(* page, which embeds the diagram with its filter panel hidden, or the     *)
(* ERDDiagram component on its own, whose parent supplies its props.       *)
(***************************************************************************)
VARIABLES
    host,                 \* "Home", "ERDDiagram", "ERDDiagramPlain" or "ERDPage"
    mounted,              \* whether the component under study is in the tree
    fetch,                \* Home's request: "pending", "settled" ("none" without Home)
    erdData,              \* Home state
    error,                \* Home state
    isLoading,            \* Home state
    viewMode,             \* Home state
    selectedWorkspace,    \* Home state
    selectedDatabase,     \* Home state
    dgmMounted,           \* whether an ERDDiagramInner instance is rendered
    tables,               \* ERDDiagram prop
    relationships,        \* ERDDiagram prop
    hideFilters,          \* ERDDiagram prop
    dgmSelectedWorkspace, \* ERDDiagramInner state
    dgmSelectedDatabase,  \* ERDDiagramInner state
    nodes,                \* ERDDiagramInner state
    edges,                \* ERDDiagramInner state
    appId,                \* ERDPage: the route parameter
    appName,              \* ERDPage state
    propUpdates,          \* how often the parent has re-rendered the lone diagram
    lastOp                \* the last fetch, filter or props operation, and what it replaced

homeVars == <<fetch, erdData, error, isLoading, viewMode, selectedWorkspace, selectedDatabase>>
dgmVars == <<dgmMounted, tables, relationships, hideFilters,
             dgmSelectedWorkspace, dgmSelectedDatabase, nodes, edges, propUpdates>>
pageVars == <<appId, appName>>
vars == <<host, mounted, homeVars, dgmVars, pageVars, lastOp>>

\* The node a drag takes (the first on screen) and where it may drop it: a
\* place off every grid.
DraggedNodes == {1}
DragTargets == {[x |-> 10, y |-> 20]}

\* Some node on screen lies where the user dropped it.
NodesMoved == \E i \in 1..Len(nodes) : nodes[i].position \in DragTargets

\* found is the database selection a setWorkspace found and reset, or the
\* workspace selection a setDatabase found; arg is the option chosen, or the body
\* ERDPage received; moved tells whether the operation found a node moved by
\* the user.
Op(name, arg, found) == [op |-> name, arg |-> arg, found |-> found, moved |-> NodesMoved]

\* Faulty variant: the effect keeping the position of every node that was on
\* screen already.
DiagramEffect_KeepPositions(ts, rs, selWs, selDb) ==
    LET fTables == dgmFilteredTables(ts, selWs, selDb)
        fresh == initialNodes(fTables)
        kept(n) == IF \E i \in 1..Len(nodes) : nodes[i].id = n.id
                   THEN [n EXCEPT !.position =
                            nodes[CHOOSE i \in 1..Len(nodes) : nodes[i].id = n.id].position]
                   ELSE n
    IN /\ nodes' = [i \in 1..Len(fresh) |-> kept(fresh[i])]
       /\ edges' = initialEdges(filteredRelationships(rs, fTables))

\* The nodes-and-edges effect of ERDDiagramInner for the given props and selection.
DiagramEffect(ts, rs, selWs, selDb) ==
    LET fTables == dgmFilteredTables(ts, selWs, selDb)
    IN /\ nodes' = initialNodes(fTables)
       /\ edges' = initialEdges(filteredRelationships(rs, fTables))

\* Home's render of <ERDDiagram tables={filteredTables}
\* relationships={erdData.relationships} hideFilters={true} />, shown only with
\* data and in the diagram view; the instance keeps its initial selection.
RenderHome(data, mode, selWs, selDb) ==
    /\ dgmMounted' = (data # NullData /\ mode = "diagram")
    /\ hideFilters' = TRUE
    /\ dgmSelectedWorkspace' = All
    /\ dgmSelectedDatabase' = All
    /\ propUpdates' = 0
    /\ IF data # NullData /\ mode = "diagram"
       THEN /\ tables' = filteredTables(data, selWs, selDb)
            /\ relationships' = data[2].relationships[2]
            /\ DiagramEffect(filteredTables(data, selWs, selDb),
                             data[2].relationships[2], All, All)
       ELSE /\ tables' = <<>>
            /\ relationships' = <<>>
            /\ nodes' = <<>>
            /\ edges' = <<>>

InitHome ==
    /\ host = "Home"
    /\ mounted = TRUE
    /\ appId = Undefined
    /\ appName = Text("")
    /\ fetch = "pending"
    /\ erdData = NullData
    /\ error = NullData
    /\ isLoading = TRUE
    /\ viewMode = "diagram"
    /\ selectedWorkspace = All
    /\ selectedDatabase = All
    /\ dgmMounted = FALSE
    /\ tables = <<>>
    /\ relationships = <<>>
    /\ hideFilters = TRUE
    /\ dgmSelectedWorkspace = All
    /\ dgmSelectedDatabase = All
    /\ nodes = <<>>
    /\ edges = <<>>
    /\ propUpdates = 0
    /\ lastOp = Op("mount", All, All)

\* The props a parent may hand the lone diagram.
DiagramProps ==
    {<<p.tables[2], p.relationships[2]>> :
        p \in TablePayloads \cup RelPayloads \cup UnnamedPayloads \cup GridPayloads
              \cup FieldPayloads}
PlainDiagramProps ==
    {<<p.tables[2], p.relationships[2]>> :
        p \in RelPayloads \cup GridPayloads \cup FieldPayloads}
PropChanges == {<<ts, CanonRels>> : ts \in TableSeqs(TwoScopes, MaxPropUpdates)}

InitDiagram ==
    /\ host = "ERDDiagram"
    /\ mounted = TRUE
    /\ appId = Undefined
    /\ appName = Text("")
    /\ fetch = "none"
    /\ erdData = NullData
    /\ error = NullData
    /\ isLoading = FALSE
    /\ viewMode = "diagram"
    /\ selectedWorkspace = All
    /\ selectedDatabase = All
    /\ dgmMounted = TRUE
    /\ \E props \in DiagramProps :
          /\ tables = props[1]
          /\ relationships = props[2]
          /\ nodes = initialNodes(dgmFilteredTables(props[1], All, All))
          /\ edges = initialEdges(filteredRelationships(props[2],
                                      dgmFilteredTables(props[1], All, All)))
    /\ hideFilters = FALSE
    /\ dgmSelectedWorkspace = All
    /\ dgmSelectedDatabase = All
    /\ propUpdates = 0
    /\ lastOp = Op("mount", All, All)

InitPlainDiagram ==
    /\ host = "ERDDiagramPlain"
    /\ mounted = TRUE
    /\ appId = Undefined
    /\ appName = Text("")
    /\ fetch = "none"
    /\ erdData = NullData
    /\ error = NullData
    /\ isLoading = FALSE
    /\ viewMode = "diagram"
    /\ selectedWorkspace = All
    /\ selectedDatabase = All
    /\ dgmMounted = TRUE
    /\ \E props \in PlainDiagramProps :
          /\ tables = props[1]
          /\ relationships = props[2]
          /\ nodes = plainNodes(props[1])
          /\ edges = plainEdges(props[2])
    /\ hideFilters = TRUE
    /\ dgmSelectedWorkspace = All
    /\ dgmSelectedDatabase = All
    /\ propUpdates = 0
    /\ lastOp = Op("mount", All, All)

\* ERDPage mounts with loading set; its effect issues the request when the
\* route carries an appId.
InitPage ==
    /\ host = "ERDPage"
    /\ mounted = TRUE
    /\ appId \in AppIds \cup {Undefined}
    /\ appName = Text("")
    /\ fetch = IF appId = Undefined THEN "none" ELSE "pending"
    /\ erdData = NullData
    /\ error = NullData
    /\ isLoading = TRUE
    /\ viewMode = "diagram"
    /\ selectedWorkspace = All
    /\ selectedDatabase = All
    /\ dgmMounted = FALSE
    /\ tables = <<>>
    /\ relationships = <<>>
    /\ hideFilters = TRUE
    /\ dgmSelectedWorkspace = All
    /\ dgmSelectedDatabase = All
    /\ nodes = <<>>
    /\ edges = <<>>
    /\ propUpdates = 0
    /\ lastOp = Op("mount", All, All)

Init == InitHome \/ InitDiagram \/ InitPlainDiagram \/ InitPage

(***************************************************************************)
(* Home: the fetch on mount and the handlers.                              *)
(***************************************************************************)
\* fetchERDData, the response ok and parsed.
\* The effect of lines 83-99 spreads erdData.tables: it throws when the member
\* is absent, and the error, caught by nothing, takes the whole tree down.
EffectThrows(body) == body # NullData /\ body[2].tables = Undefined

\* What is left of the diagram once it is out of the tree.
DiagramGone ==
    /\ dgmMounted' = FALSE
    /\ tables' = <<>>
    /\ relationships' = <<>>
    /\ nodes' = <<>>
    /\ edges' = <<>>
    /\ UNCHANGED <<hideFilters, dgmSelectedWorkspace, dgmSelectedDatabase, propUpdates>>

\* The continuation of fetchERDData calls its setters whether or not the
\* component is still in the tree; only a component in the tree renders.  body
\* is what response.json() returned: an object, or null for the JSON text null.
FetchResolve(body) ==
    /\ host = "Home"
    /\ fetch = "pending"
    /\ fetch' = "settled"
    /\ erdData' = body
    /\ error' = NullData
    /\ isLoading' = FALSE
    /\ UNCHANGED <<host, pageVars, viewMode, selectedWorkspace, selectedDatabase>>
    /\ IF ~mounted
       THEN /\ UNCHANGED <<mounted, dgmVars>>
            /\ lastOp' = Op("lateFetch", All, All)
       ELSE IF EffectThrows(body)
       THEN /\ mounted' = FALSE
            /\ DiagramGone
            /\ lastOp' = Op("fetchCrash", All, All)
       ELSE /\ UNCHANGED mounted
            /\ RenderHome(body, viewMode, selectedWorkspace, selectedDatabase)
            /\ lastOp' = Op("fetch", All, All)

\* Faulty variant: the failure path without the finally that ends the loading.
FetchFail_StillLoading ==
    /\ host = "Home"
    /\ fetch = "pending"
    /\ fetch' = "settled"
    /\ erdData' = NullData
    /\ error' = Text("Error fetching ERD data")
    /\ UNCHANGED isLoading
    /\ UNCHANGED <<host, pageVars, mounted, viewMode, selectedWorkspace, selectedDatabase>>
    /\ IF mounted
       THEN RenderHome(NullData, viewMode, selectedWorkspace, selectedDatabase)
       ELSE UNCHANGED dgmVars
    /\ lastOp' = Op(IF mounted THEN "fetchFail" ELSE "lateFetchFail", All, All)

\* fetchERDData, the request rejected or the status not ok.
FetchFail ==
    /\ host = "Home"
    /\ fetch = "pending"
    /\ fetch' = "settled"
    /\ erdData' = NullData
    /\ error' = Text("Error fetching ERD data")
    /\ isLoading' = FALSE
    /\ UNCHANGED <<host, pageVars, mounted, viewMode, selectedWorkspace, selectedDatabase>>
    /\ IF mounted
       THEN RenderHome(NullData, viewMode, selectedWorkspace, selectedDatabase)
       ELSE UNCHANGED dgmVars
    /\ lastOp' = Op(IF mounted THEN "fetchFail" ELSE "lateFetchFail", All, All)

\* The options of the workspace selector, rendered once erdData is set.
WorkspaceOptions ==
    {All} \cup {toString(ws.id) : ws \in Range(allWorkspaces(erdData))}

\* Faulty variant: the database selector listing every database.
DatabaseOptions_Unfiltered ==
    {All} \cup {toString(db.id) : db \in Range(allDatabases(erdData))}

\* The options of the database selector, which is disabled without a workspace.
DatabaseOptions ==
    {All} \cup {toString(db.id) :
                   db \in Range(databasesWithCorrectCounts(erdData, selectedWorkspace))}

\* Faulty variant: the handler without the reset of the database selection.
handleWorkspaceChange_NoReset(w) ==
    /\ host = "Home"
    /\ mounted
    /\ erdData # NullData
    /\ selectedWorkspace' = w
    /\ UNCHANGED <<host, pageVars, mounted, fetch, erdData, error, isLoading, viewMode, selectedDatabase>>
    /\ RenderHome(erdData, viewMode, w, selectedDatabase)
    /\ lastOp' = Op("setWorkspace", w, selectedDatabase)

\* Faulty variant: choosing the selected workspace again clears the selection.
handleWorkspaceChange_Toggle(w) ==
    /\ host = "Home"
    /\ mounted
    /\ erdData # NullData
    /\ LET next == IF w = selectedWorkspace THEN All ELSE w
       IN IF next = selectedWorkspace /\ selectedDatabase = All
          THEN UNCHANGED vars
          ELSE /\ selectedWorkspace' = next
               /\ selectedDatabase' = All
               /\ UNCHANGED <<host, pageVars, mounted, fetch, erdData, error, isLoading,
                              viewMode>>
               /\ RenderHome(erdData, viewMode, next, All)
               /\ lastOp' = Op("setWorkspace", w, selectedDatabase)

\* A handler that sets every state to the value it has causes no render.
handleWorkspaceChange(w) ==
    /\ host = "Home"
    /\ mounted
    /\ erdData # NullData
    /\ IF w = selectedWorkspace /\ selectedDatabase = All
       THEN UNCHANGED vars
       ELSE /\ selectedWorkspace' = w
            /\ selectedDatabase' = All
            /\ UNCHANGED <<host, pageVars, mounted, fetch, erdData, error, isLoading, viewMode>>
            /\ RenderHome(erdData, viewMode, w, All)
            /\ lastOp' = Op("setWorkspace", w, selectedDatabase)

\* Faulty variant: the database selector not disabled without a workspace.
handleDatabaseChange_Enabled(d) ==
    /\ host = "Home"
    /\ mounted
    /\ erdData # NullData
    /\ IF d = selectedDatabase
       THEN UNCHANGED vars
       ELSE /\ selectedDatabase' = d
            /\ UNCHANGED <<host, pageVars, mounted, fetch, erdData, error, isLoading,
                           viewMode, selectedWorkspace>>
            /\ RenderHome(erdData, viewMode, selectedWorkspace, d)
            /\ lastOp' = Op("setDatabase", d, selectedWorkspace)

handleDatabaseChange(d) ==
    /\ host = "Home"
    /\ mounted
    /\ erdData # NullData
    /\ selectedWorkspace # All
    /\ IF d = selectedDatabase
       THEN UNCHANGED vars
       ELSE /\ selectedDatabase' = d
            /\ UNCHANGED <<host, pageVars, mounted, fetch, erdData, error, isLoading,
                           viewMode, selectedWorkspace>>
            /\ RenderHome(erdData, viewMode, selectedWorkspace, d)
            /\ lastOp' = Op("setDatabase", d, selectedWorkspace)

\* The Diagram View / List View buttons.
setViewMode(mode) ==
    /\ host = "Home"
    /\ mounted
    /\ IF mode = viewMode
       THEN UNCHANGED vars
       ELSE /\ viewMode' = mode
            /\ UNCHANGED <<host, pageVars, mounted, fetch, erdData, error, isLoading,
                           selectedWorkspace, selectedDatabase>>
            /\ RenderHome(erdData, mode, selectedWorkspace, selectedDatabase)
            /\ UNCHANGED lastOp

(***************************************************************************)
(* ERDDiagram on its own: the panel's handlers and the parent's re-render. *)
(***************************************************************************)
dgmWorkspaceOptions ==
    {All} \cup {toString(ws.id) : ws \in Range(workspaces(tables))}

dgmDatabaseOptions ==
    {All} \cup {toString(db.id) :
                   db \in Range(dgmFilteredDatabases(databases(tables),
                                                     dgmSelectedWorkspace))}

dgmHandleWorkspaceChange(w) ==
    /\ dgmMounted
    /\ ~hideFilters
    /\ IF w = dgmSelectedWorkspace /\ dgmSelectedDatabase = All
       THEN UNCHANGED vars
       ELSE /\ dgmSelectedWorkspace' = w
            /\ dgmSelectedDatabase' = All
            /\ DiagramEffect(tables, relationships, w, All)
            /\ UNCHANGED <<host, pageVars, mounted, homeVars, dgmMounted, tables,
                           relationships, hideFilters, propUpdates>>
            /\ lastOp' = Op("setWorkspace", w, dgmSelectedDatabase)

dgmHandleDatabaseChange(d) ==
    /\ dgmMounted
    /\ ~hideFilters
    /\ dgmSelectedWorkspace # All
    /\ IF d = dgmSelectedDatabase
       THEN UNCHANGED vars
       ELSE /\ dgmSelectedDatabase' = d
            /\ DiagramEffect(tables, relationships, dgmSelectedWorkspace, d)
            /\ UNCHANGED <<host, pageVars, mounted, homeVars, dgmMounted, tables,
                           relationships, hideFilters, dgmSelectedWorkspace, propUpdates>>
            /\ lastOp' = Op("setDatabase", d, dgmSelectedWorkspace)

\* onNodesChange with the position change of a drag: node i is where it was
\* dropped.
onNodesChange(i, pos) ==
    /\ host \in {"Home", "ERDDiagram"}
    /\ mounted
    /\ dgmMounted
    /\ i \in 1..Len(nodes)
    /\ nodes[i].position # pos
    /\ nodes' = [nodes EXCEPT ![i].position = pos]
    /\ UNCHANGED <<host, pageVars, mounted, homeVars, dgmMounted, tables, relationships,
                   hideFilters, dgmSelectedWorkspace, dgmSelectedDatabase, edges,
                   propUpdates>>
    /\ lastOp' = Op("drag", All, All)

\* The parent renders the diagram again with new tables and relationships: the
\* memos and the effect run again, the useState values stay.
ReceiveProps(ts, rs) ==
    /\ host = "ERDDiagram"
    /\ dgmMounted
    /\ propUpdates < MaxPropUpdates
    /\ propUpdates' = propUpdates + 1
    /\ tables' = ts
    /\ relationships' = rs
    /\ DiagramEffect(ts, rs, dgmSelectedWorkspace, dgmSelectedDatabase)
    /\ UNCHANGED <<host, pageVars, mounted, homeVars, dgmMounted, hideFilters,
                   dgmSelectedWorkspace, dgmSelectedDatabase>>
    /\ lastOp' = Op("props", All, All)

\* The page is left: the component goes out of the tree, its request stays in
\* flight (the effect returns no cleanup and passes no abort signal).
Teardown ==
    /\ host = "Home"
    /\ mounted
    /\ mounted' = FALSE
    /\ DiagramGone
    /\ UNCHANGED <<host, pageVars, homeVars>>
    /\ lastOp' = Op("teardown", All, All)

\* The parent renders the filterless diagram again: it computes both anew.
PlainReceiveProps(ts, rs) ==
    /\ host = "ERDDiagramPlain"
    /\ dgmMounted
    /\ propUpdates < MaxPropUpdates
    /\ propUpdates' = propUpdates + 1
    /\ tables' = ts
    /\ relationships' = rs
    /\ nodes' = plainNodes(ts)
    /\ edges' = plainEdges(rs)
    /\ UNCHANGED <<host, pageVars, mounted, homeVars, dgmMounted, hideFilters,
                   dgmSelectedWorkspace, dgmSelectedDatabase>>
    /\ lastOp' = Op("props", All, All)

(***************************************************************************)
(* ERDPage: the fetch of its effect.                                       *)
(***************************************************************************)
NotFoundMessage(id) == Text("Application with ID " \o ToString(id[2]) \o " not found")

\* Faulty variant: the nodes of the first application built when the requested
\* one is not found.  Reading
\* data.applications of a body without it throws, which the catch turns into
\* the error; so does the application that is not found.
PageResolve_FirstApplication(p) ==
    /\ host = "ERDPage"
    /\ fetch = "pending"
    /\ fetch' = "settled"
    /\ isLoading' = FALSE
    /\ IF p.applications = Undefined
       THEN /\ error' = Text("TypeError")
            /\ UNCHANGED <<appName, nodes, edges>>
       ELSE LET app == selectedApp(p, appId)
            IN IF app = Undefined
               THEN /\ error' = NotFoundMessage(appId)
                    /\ nodes' = IF Len(p.applications[2]) > 0
                                THEN flowNodes(p.applications[2][1]) ELSE nodes
                    /\ UNCHANGED <<appName, edges>>
               ELSE /\ error' = NullData
                    /\ appName' = app[2].name
                    /\ nodes' = flowNodes(app[2])
                    /\ edges' = flowEdges(p, app[2])
    /\ UNCHANGED <<host, mounted, appId, erdData, viewMode, selectedWorkspace,
                   selectedDatabase, dgmMounted, tables, relationships, hideFilters,
                   dgmSelectedWorkspace, dgmSelectedDatabase, propUpdates>>
    /\ lastOp' = Op(IF mounted THEN "pageFetch" ELSE "lateFetch", p, All)

\* fetchERDData of ERDPage, the response ok and parsed.  Reading
\* data.applications of a body without it throws, which the catch turns into
\* the error; so does the application that is not found.
PageResolve(p) ==
    /\ host = "ERDPage"
    /\ fetch = "pending"
    /\ fetch' = "settled"
    /\ isLoading' = FALSE
    /\ IF p.applications = Undefined
       THEN /\ error' = Text("TypeError")
            /\ UNCHANGED <<appName, nodes, edges>>
       ELSE LET app == selectedApp(p, appId)
            IN IF app = Undefined
               THEN /\ error' = NotFoundMessage(appId)
                    /\ UNCHANGED <<appName, nodes, edges>>
               ELSE /\ error' = NullData
                    /\ appName' = app[2].name
                    /\ nodes' = flowNodes(app[2])
                    /\ edges' = flowEdges(p, app[2])
    /\ UNCHANGED <<host, mounted, appId, erdData, viewMode, selectedWorkspace,
                   selectedDatabase, dgmMounted, tables, relationships, hideFilters,
                   dgmSelectedWorkspace, dgmSelectedDatabase, propUpdates>>
    /\ lastOp' = Op(IF mounted THEN "pageFetch" ELSE "lateFetch", p, All)

\* fetchERDData of ERDPage, the request rejected or the status not ok.
PageFail ==
    /\ host = "ERDPage"
    /\ fetch = "pending"
    /\ fetch' = "settled"
    /\ isLoading' = FALSE
    /\ error' = Text("Error fetching ERD data")
    /\ UNCHANGED <<host, mounted, pageVars, erdData, viewMode, selectedWorkspace,
                   selectedDatabase, dgmVars>>
    /\ lastOp' = Op(IF mounted THEN "fetchFail" ELSE "lateFetchFail", All, All)

\* The page is left while ERDPage shows; its request stays in flight.
PageTeardown ==
    /\ host = "ERDPage"
    /\ mounted
    /\ mounted' = FALSE
    /\ UNCHANGED <<host, pageVars, homeVars, dgmVars>>
    /\ lastOp' = Op("teardown", All, All)

PageResponses == IF host = "ERDPage" /\ fetch = "pending" THEN PagePayloads ELSE {}

\* The bodies the request in flight may be answered with.
Responses ==
    IF host = "Home" /\ fetch = "pending"
    THEN {Data(p) : p \in Payloads} \cup {NullData}
    ELSE {}

\* A handler runs with the value of an option its selector lists.
Next ==
    \/ \E body \in Responses : FetchResolve(body)
    \/ FetchFail
    \/ \E w \in WorkspaceOptions : handleWorkspaceChange(w)
    \/ \E d \in DatabaseOptions : handleDatabaseChange(d)
    \/ \E mode \in {"diagram", "list"} : setViewMode(mode)
    \/ \E w \in dgmWorkspaceOptions : dgmHandleWorkspaceChange(w)
    \/ \E d \in dgmDatabaseOptions : dgmHandleDatabaseChange(d)
    \/ \E i \in DraggedNodes, pos \in DragTargets : onNodesChange(i, pos)
    \/ \E props \in PropChanges : ReceiveProps(props[1], props[2])
    \/ \E props \in PropChanges : PlainReceiveProps(props[1], props[2])
    \/ Teardown
    \/ \E p \in PageResponses : PageResolve(p)
    \/ PageFail
    \/ PageTeardown

Spec == Init /\ [][Next]_vars

(***************************************************************************)
(* Properties.  Ids are integers in the data model: two id values are the  *)
(* same id when they denote the same number, whatever their transport type.*)
(***************************************************************************)
SameId(a, b) == Number(a) # NaN /\ Number(a) = Number(b)

\* The selection of the component under study.
CurrentWorkspace == IF host = "Home" THEN selectedWorkspace ELSE dgmSelectedWorkspace
CurrentDatabase == IF host = "Home" THEN selectedDatabase ELSE dgmSelectedDatabase

\* C1: right after any setWorkspace(w) the workspace selection is w and the
\* database selection is 'all', in Home and in the diagram's own panel.
C1_SetWorkspaceResetsDatabase ==
    lastOp.op = "setWorkspace" =>
        /\ CurrentWorkspace = lastOp.arg
        /\ CurrentDatabase = All

\* C1 witness: a setWorkspace(w2) that found a database selected whose workspace
\* is not w2.
C1_Witness ==
    /\ host = "Home"
    /\ lastOp.op = "setWorkspace"
    /\ lastOp.arg # All
    /\ lastOp.found # All
    /\ \E db \in Range(allDatabases(erdData)) :
          /\ toString(db.id) = lastOp.found
          /\ ~SameId(db.workspace_id, lastOp.arg)
    /\ selectedDatabase = All

\* A database selection is within the workspace selection: 'all', or the id of a
\* listed database whose workspace is the selected one (or none is selected).
SelectionLegal(dbs, selWs, selDb) ==
    \/ selDb = All
    \/ \E db \in Range(dbs) :
          /\ toString(db.id) = selDb
          /\ (selWs = All \/ SameId(db.workspace_id, selWs))

\* C2: setDatabase(d) happens only with a legal d, so every selection reached by
\* setWorkspace/setDatabase over the loaded data is legal.
C2_DatabaseWithinWorkspace ==
    /\ (lastOp.op = "setDatabase" => CurrentDatabase = lastOp.arg)
    /\ (host = "Home" =>
           SelectionLegal(allDatabases(erdData), selectedWorkspace, selectedDatabase))
    /\ (host = "ERDDiagram" /\ propUpdates = 0 =>
           SelectionLegal(databases(tables), dgmSelectedWorkspace, dgmSelectedDatabase))

\* C2 witness: a database is selected while another database lies outside the
\* selected workspace.
C2_Witness ==
    /\ host = "Home"
    /\ lastOp.op = "setDatabase"
    /\ selectedDatabase # All
    /\ \E db \in Range(allDatabases(erdData)) : ~SameId(db.workspace_id, selectedWorkspace)

\* C3: the selection is (all, all) at the start and again whenever new entities
\* arrive: after a completed fetch and after a new tables prop.
C3_SelectionResetOnNewData ==
    lastOp.op \in {"mount", "fetch", "props"} =>
        /\ CurrentWorkspace = All
        /\ CurrentDatabase = All

MapSeq(s, F(_)) == [i \in 1..Len(s) |-> F(s[i])]

\* The tables the user sees: Home's filtered tables, or the lone diagram's.
VisibleTables ==
    CASE host = "Home" -> filteredTables(erdData, selectedWorkspace, selectedDatabase)
      [] host = "ERDDiagram" ->
             dgmFilteredTables(tables, dgmSelectedWorkspace, dgmSelectedDatabase)
      [] host = "ERDDiagramPlain" -> tables
      [] host = "ERDPage" -> nodes

IsVisibleId(id) == \E t \in Range(VisibleTables) : SameId(t.id, id)

\* C4: filteredRelationships() is exactly the relationships whose source and
\* target table ids are both ids of filtered tables, in their order.
C4_RelationshipsOfFilteredTables ==
    dgmMounted =>
        LET fTables == dgmFilteredTables(tables, dgmSelectedWorkspace, dgmSelectedDatabase)
            isFiltered(id) == \E t \in Range(fTables) : SameId(t.id, id)
        IN filteredRelationships(relationships, fTables)
           = SelectSeq(relationships,
                 LAMBDA rel : isFiltered(rel.source_table_id)
                              /\ isFiltered(rel.target_table_id))

\* C5: whatever the view, a relationship is on screen (a diagram edge, a
\* relationship card of the list view) only with both its tables visible.
C5_ShownRelationshipsHaveVisibleEnds ==
    /\ \A i \in 1..Len(edges) :
          IsVisibleId(edges[i].source) /\ IsVisibleId(edges[i].target)
    /\ host = "Home" =>
          \A rel \in Range(relationshipCards(erdData, viewMode)) :
              IsVisibleId(rel.source_table_id) /\ IsVisibleId(rel.target_table_id)

\* The tables a selection asks for.
MatchesSelection(t, selWs, selDb) ==
    /\ (selWs = All \/ SameId(t.workspace_id, selWs))
    /\ (selDb = All \/ SameId(t.database_id, selDb))

\* C6: filteredTables() is exactly the tables of the selected workspace (if one
\* is selected) and of the selected database (if one is), in the original order;
\* with (all, all) it is the whole list.
C6_FilteredTablesMatchSelection ==
    /\ (host = "Home" /\ erdData # NullData =>
           /\ filteredTables(erdData, selectedWorkspace, selectedDatabase)
              = SelectSeq(TablesOf(erdData),
                    LAMBDA t : MatchesSelection(t, selectedWorkspace, selectedDatabase))
           /\ filteredTables(erdData, All, All) = TablesOf(erdData))
    /\ (host = "ERDDiagram" =>
           /\ dgmFilteredTables(tables, dgmSelectedWorkspace, dgmSelectedDatabase)
              = SelectSeq(tables,
                    LAMBDA t : MatchesSelection(t, dgmSelectedWorkspace, dgmSelectedDatabase))
           /\ dgmFilteredTables(tables, All, All) = tables)

\* C6 witness: both filters set, a table with a text workspace id kept and
\* another table dropped.
C6_Witness ==
    /\ host = "Home"
    /\ selectedWorkspace # All
    /\ selectedDatabase # All
    /\ LET kept == filteredTables(erdData, selectedWorkspace, selectedDatabase)
       IN /\ Len(kept) > 0
          /\ Len(kept) < Len(TablesOf(erdData))
          /\ \E t \in Range(kept) : t.workspace_id[1] = "str"

\* The live count: the tables of the full table set that are in the database.
LiveCount(data, id) ==
    Num(Count(TablesOf(data), LAMBDA t : SameId(t.database_id, id)))

\* C7: the database list is exactly the databases of the selected workspace
\* (all of them with 'all'), each with the count of its tables in the full set.
C7_FilteredDatabasesOfWorkspace ==
    host = "Home" /\ erdData # NullData =>
        LET listed == databasesWithCorrectCounts(erdData, selectedWorkspace)
            wanted == SelectSeq(allDatabases(erdData),
                          LAMBDA db : selectedWorkspace = All
                                      \/ SameId(db.workspace_id, selectedWorkspace))
        IN /\ MapSeq(listed, LAMBDA db : <<db.id, db.name>>)
              = MapSeq(wanted, LAMBDA db : <<db.id, db.name>>)
           /\ \A i \in 1..Len(listed) :
                 listed[i].tableCount = LiveCount(erdData, listed[i].id)

\* C8: with an explicit databases list and no workspace selected, the database
\* list is that list, entry by entry, each with its live table count.
C8_ExplicitDatabasesKept ==
    host = "Home" /\ HasList(erdData, "databases") /\ selectedWorkspace = All =>
        LET listed == databasesWithCorrectCounts(erdData, All)
            given == erdData[2].databases[2]
        IN /\ MapSeq(listed, LAMBDA db : <<db.id, db.name>>)
              = MapSeq(given, LAMBDA db : <<db.id, db.name>>)
           /\ \A i \in 1..Len(listed) :
                 listed[i].tableCount = LiveCount(erdData, given[i].id)

\* The payload, and the results, with every id as a number.
NormTable(t) ==
    [t EXCEPT !.id = Number(@), !.database_id = Number(@), !.workspace_id = Number(@)]
NormRel(rel) ==
    [rel EXCEPT !.source_table_id = Number(@), !.target_table_id = Number(@)]
NormDb(db) == [db EXCEPT !.id = Number(@), !.workspace_id = Number(@)]
NormList(list, F(_)) == IF list[1] # "array" THEN Undefined ELSE Arr(MapSeq(list[2], F))
NormPayload(p) ==
    [p EXCEPT !.tables = NormList(@, NormTable),
              !.relationships = NormList(@, NormRel),
              !.databases = NormList(@, NormDb)]

\* C9: the three filters give the same result whether the ids of the payload
\* arrive as numbers or as numeric text.
C9_IdTypeDoesNotMatter ==
    host = "Home" /\ erdData # NullData =>
        LET norm == Data(NormPayload(erdData[2]))
            kept == filteredTables(erdData, selectedWorkspace, selectedDatabase)
            keptNorm == filteredTables(norm, selectedWorkspace, selectedDatabase)
        IN /\ MapSeq(databasesWithCorrectCounts(erdData, selectedWorkspace), NormDb)
              = databasesWithCorrectCounts(norm, selectedWorkspace)
           /\ MapSeq(kept, NormTable) = keptNorm
           /\ MapSeq(filteredRelationships(erdData[2].relationships[2], kept), NormRel)
              = filteredRelationships(norm[2].relationships[2], keptNorm)

\* C10: without a databases list, there is one derived database per distinct
\* database_id of the tables, the id 0 included.
C10_OneDatabasePerDistinctId ==
    /\ (host = "Home" /\ erdData # NullData /\ ~HasList(erdData, "databases") =>
           LET derived == allDatabases(erdData)
           IN /\ Len(derived) = Cardinality({db.id : db \in Range(derived)})
              /\ {db.id : db \in Range(derived)}
                 = {Number(t.database_id) : t \in Range(TablesOf(erdData))})
    /\ (host = "ERDDiagram" =>
           LET derived == databases(tables)
           IN /\ Len(derived) = Cardinality({db.id : db \in Range(derived)})
              /\ {db.id : db \in Range(derived)}
                 = {Number(t.database_id) : t \in Range(tables)})

\* The first table, in payload order, carrying the id in the given field.
FirstTableWith(ts, field, id) == Find(ts, LAMBDA t : SameId(t[field], id))

\* A derived database is named after, and placed in the workspace of, the first
\* table of that database; without a database name there it is "Database {id}".
DerivedDatabaseOk(ts, db) ==
    Number(db.id) # NaN =>
        LET first == FirstTableWith(ts, "database_id", db.id)
        IN /\ first # Undefined
           /\ db.name = OrElse(first[2].database_name, Template("Database ", Number(db.id)))
           /\ SameId(db.workspace_id, first[2].workspace_id)

\* A derived workspace none of whose tables names it is "Workspace {id}".
DerivedWorkspaceOk(ts, ws) ==
    (/\ Number(ws.id) # NaN
     /\ \A t \in Range(ts) : SameId(t.workspace_id, ws.id) => ~Truthy(t.workspace_name))
        => ws.name = Template("Workspace ", Number(ws.id))

C11_HomeDerivedNames ==
    host = "Home" /\ erdData # NullData =>
        /\ (~HasList(erdData, "databases") =>
               \A db \in Range(allDatabases(erdData)) :
                   DerivedDatabaseOk(TablesOf(erdData), db))
        /\ (~HasList(erdData, "workspaces") =>
               \A ws \in Range(allWorkspaces(erdData)) :
                   DerivedWorkspaceOk(TablesOf(erdData), ws))

C11_DiagramDerivedNames ==
    host = "ERDDiagram" =>
        /\ \A db \in Range(databases(tables)) : DerivedDatabaseOk(tables, db)
        /\ \A ws \in Range(workspaces(tables)) : DerivedWorkspaceOk(tables, ws)

\* C11: on the derive path a database takes its name and workspace from the
\* first table of that database, named "Database {id}" when that table has no
\* database name; an unnamed derived workspace is named "Workspace {id}".
C11_DerivedNamesAndFallbacks == C11_HomeDerivedNames /\ C11_DiagramDerivedNames

NoRepeatedId(list) ==
    \A i, j \in 1..Len(list) : i # j => ~SameId(list[i].id, list[j].id)

\* C12: whatever the payload, the workspace list, the database list and the
\* table list the page works with hold no two entries with the same id.
C12_IdsUniqueAfterNormalization ==
    host = "Home" /\ erdData # NullData =>
        /\ NoRepeatedId(allWorkspaces(erdData))
        /\ NoRepeatedId(allDatabases(erdData))
        /\ NoRepeatedId(TablesOf(erdData))

Resolves(list, id) == \E entry \in Range(list) : SameId(entry.id, id)

\* C13: every table's database_id is the id of a database of the list and its
\* workspace_id the id of a workspace of the list, for every payload taken in.
C13_TablesResolve ==
    host = "Home" /\ erdData # NullData =>
        \A t \in Range(TablesOf(erdData)) :
            /\ Resolves(allDatabases(erdData), t.database_id)
            /\ Resolves(allWorkspaces(erdData), t.workspace_id)

\* has_tables as the payload supplies it for the i-th database, if it does.
SuppliedHasTables(data, i) ==
    IF HasList(data, "databases") THEN data[2].databases[2][i].has_tables ELSE Undefined

HasTablesOk(data, list) ==
    \A i \in 1..Len(list) :
        list[i].hasTables =
            IF SuppliedHasTables(data, i) # Undefined
            THEN SuppliedHasTables(data, i)
            ELSE Bool(list[i].tableCount[2] > 0)

\* C14: a database entry's hasTables is the payload's has_tables when supplied
\* and (tableCount > 0) otherwise, in the database list and in the list the
\* database selector is given.
C14_HasTablesFollowsPayload ==
    host = "Home" /\ erdData # NullData =>
        /\ HasTablesOk(erdData, allDatabases(erdData))
        /\ HasTablesOk(erdData, databasesWithCorrectCounts(erdData, All))

\* A table the normalizer must refuse: no id, no name, or no numeric database id.
MalformedTable(t) ==
    \/ t.id = Undefined
    \/ t.name = Undefined
    \/ Number(t.database_id) = NaN

\* C15: a payload with a malformed table is never taken in as data: it produces
\* no entities and nothing is rendered from it.
C15_MalformedPayloadRefused ==
    host = "Home" /\ erdData # NullData =>
        \A t \in Range(TablesOf(erdData)) : ~MalformedTable(t)

\* C16: a payload whose tables member is missing or is no sequence ends in the
\* error state; it is never held as loaded data with empty lists to show.
C16_NoEmptyDataForMalformedPayload ==
    host = "Home" /\ erdData # NullData =>
        erdData[2].tables[1] = "array"

\* C17: once the component is torn down, no completion of its fetch, with a
\* body or with an error, updates data, error, loading, nodes or edges.
C17_LateResponseDiscarded ==
    [][~mounted => UNCHANGED <<erdData, error, isLoading, nodes, edges>>]_vars

\* C18: a failed fetch leaves no data, an error message and no loading flag;
\* no further request is issued, and no entity is on screen.
C18_FetchFailureDiscardsData ==
    /\ (lastOp.op \in {"fetchFail", "lateFetchFail"} => error # NullData)
    /\ (host = "Home" /\ error # NullData =>
           /\ erdData = NullData
           /\ isLoading = FALSE
           /\ fetch = "settled"
           /\ ~dgmMounted
           /\ nodes = <<>> /\ edges = <<>>
           /\ tableCards(erdData, viewMode, selectedWorkspace, selectedDatabase) = <<>>
           /\ relationshipCards(erdData, viewMode) = <<>>)

\* C18 witness: Home after its request failed, switched to the list view.
C18_Witness ==
    /\ host = "Home"
    /\ mounted
    /\ lastOp.op = "fetchFail"
    /\ viewMode = "list"
    /\ error # NullData

\* The body ERDPage received names the requested application.
AppInBody(body, id) ==
    \E app \in Range(body.applications[2]) : SameId(app.id, id)

\* C19: when the body holds no application with the requested id, the load ends
\* with the not-found error and no loading flag, and nodes and edges stay empty.
C19_UnknownApplicationIsAnError ==
    (/\ host = "ERDPage"
     /\ lastOp.op \in {"pageFetch", "lateFetch"}
     /\ lastOp.arg.applications # Undefined
     /\ ~AppInBody(lastOp.arg, appId))
        => /\ error = NotFoundMessage(appId)
           /\ isLoading = FALSE
           /\ nodes = <<>>
           /\ edges = <<>>

\* C19 witness: application 3 requested, the body holding other applications
\* with tables and a relationship among them.
C19_Witness ==
    /\ host = "ERDPage"
    /\ lastOp.op = "pageFetch"
    /\ appId = Str(3)
    /\ lastOp.arg.applications # Undefined
    /\ Len(lastOp.arg.applications[2]) = 2
    /\ Len(lastOp.arg.applications[2][1].tables) = 2
    /\ lastOp.arg.relationships[2] = CanonRels
    /\ error = NotFoundMessage(appId)

\* The tables the nodes on screen were derived from, where the state tells: not
\* past a drag, which moves a node off its derived place.
NodesKnown ==
    IF host = "ERDPage" THEN lastOp.op \in {"pageFetch", "lateFetch"}
    ELSE lastOp.op # "drag"
NodeTables ==
    CASE host = "ERDDiagram" ->
             dgmFilteredTables(tables, dgmSelectedWorkspace, dgmSelectedDatabase)
      [] host = "ERDPage" ->
             IF lastOp.arg.applications # Undefined /\ AppInBody(lastOp.arg, appId)
             THEN FirstTableWith(lastOp.arg.applications[2], "id", appId)[2].tables
             ELSE <<>>
      [] OTHER -> tables

\* One node per table, in order, its id the table id as text, on a grid of three
\* columns with the given origin and spacing; no two nodes at one position.
OnGrid(ts, ns, x0, y0, dx, dy) ==
    /\ Len(ns) = Len(ts)
    /\ \A i \in 1..Len(ns) :
          /\ ns[i].id = toString(ts[i].id)
          /\ ns[i].position = [x |-> ((i - 1) % 3) * dx + x0,
                               y |-> ((i - 1) \div 3) * dy + y0]
    /\ \A i, j \in 1..Len(ns) : i # j => ns[i].position # ns[j].position

\* C20 as claimed: every derive places table i at x = (i mod 3) * 300 + 50,
\* y = floor(i / 3) * 400 + 50, one node per table, the id as text.
C20_GridLayoutAsClaimed ==
    NodesKnown => OnGrid(NodeTables, nodes, 50, 50, 300, 400)

\* C20 amended: the grid is three columns wide everywhere; the ERDDiagram
\* component places table i at x = col * 300 + 50, y = row * 400 + 50, ERDPage
\* at x = 200 + col * 300, y = 100 + row * 300.
C20_GridLayout ==
    NodesKnown =>
        IF host = "ERDPage"
        THEN OnGrid(NodeTables, nodes, 200, 100, 300, 300)
        ELSE OnGrid(NodeTables, nodes, 50, 50, 300, 400)

\* C20 witness: the diagram's own filter applied to tables filling a second row.
C20_Witness ==
    /\ host = "ERDDiagram"
    /\ lastOp.op = "setWorkspace"
    /\ dgmSelectedWorkspace # All
    /\ Len(nodes) >= 4

\* The relationships the edges on screen were derived from: the filtered ones
\* in the filtering diagram, the props in the filterless one, and in ERDPage the
\* relationships among the tables of the application.
EdgeRelationships ==
    CASE host = "ERDDiagramPlain" -> relationships
      [] host = "ERDPage" ->
             IF lastOp.arg.applications # Undefined /\ AppInBody(lastOp.arg, appId)
             THEN LET ts == NodeTables
                      among(id) == \E t \in Range(ts) : StrictEq(t.id, id)
                  IN SelectSeq(lastOp.arg.relationships[2],
                         LAMBDA rel : among(rel.source_table_id)
                                      /\ among(rel.target_table_id))
             ELSE <<>>
      [] OTHER -> filteredRelationships(relationships, NodeTables)

\* One edge per relationship, in order: the i-th (from 0) has id "e{i}", the
\* source and target table ids as text and the field name as label; ids differ.
EdgePerRelationship(rels, es) ==
    /\ Len(es) = Len(rels)
    /\ \A i \in 1..Len(es) :
          /\ es[i].id = Text("e" \o ToString(i - 1))
          /\ es[i].source = toString(rels[i].source_table_id)
          /\ es[i].target = toString(rels[i].target_table_id)
          /\ es[i].label = rels[i].field_name
    /\ \A i, j \in 1..Len(es) : i # j => es[i].id # es[j].id

\* C21: every derive emits exactly one edge per input relationship, in
\* relationship order, the edge at index i with id "e{i}", source and target the
\* relationship's table ids as text, label its field name; ids are distinct.
C21_OneEdgePerRelationship ==
    NodesKnown => EdgePerRelationship(EdgeRelationships, edges)

\* The lower-cased name of a table or of a field.
LowerName(x) == toLowerCase(Chars(x.name[2]))

\* Every field of every node on screen, with the table and the field it marks.
MarkedFields ==
    IF host = "ERDPage" \/ Len(nodes) # Len(NodeTables) THEN {}
    ELSE UNION {{<<NodeTables[i], NodeTables[i].fields[k], nodes[i].fields[k]>> :
                    k \in 1..Len(nodes[i].fields)} : i \in 1..Len(nodes)}

\* C22: a field is marked isPrimary exactly when its lower-cased name is the
\* lower-cased table name followed by "_id"; a field named "id" is not.
C22_PrimaryIsTableNameId ==
    /\ host # "ERDPage" =>
          \A i \in 1..Len(nodes) : Len(nodes[i].fields) = Len(NodeTables[i].fields)
    /\ \A m \in MarkedFields :
          /\ m[3].isPrimary = Bool(LowerName(m[2]) = LowerName(m[1]) \o <<"_", "i", "d">>)
          /\ (m[2].name = Text("id") => m[3].isPrimary = Bool(FALSE))

\* C22 witness: a field named in another letter case than its table is marked,
\* in the diagram filtered to the table's workspace.
C22_Witness ==
    /\ host = "ERDDiagram"
    /\ dgmSelectedWorkspace # All
    /\ \E m \in MarkedFields :
          /\ m[1].name = Text("Users")
          /\ m[2].name = Text("Users_ID")
          /\ m[3].isPrimary = Bool(TRUE)

\* A field carries a linked table id when the member is there and is not null.
HasLinkedTableId(field) == field.link_row_table_id \notin {Undefined, Null}

\* C23: a field is marked isForeign exactly when its type is 'link_row' or it
\* carries a linked table id; a link_row_table_id that is null is none.
C23_ForeignIsLink ==
    \A m \in MarkedFields :
        m[3].isForeign = Bool(m[2].type = Text("link_row") \/ HasLinkedTableId(m[2]))

\* The selected workspace has no database: none of the database list is in it.
NoDatabaseInWorkspace(data, selWs) ==
    /\ selWs # All
    /\ \A db \in Range(allDatabases(data)) : ~SameId(db.workspace_id, selWs)

\* C24: with a workspace selected that has no matching database, the database
\* list and the table list are both empty and there is no error, whatever the
\* payload.
C24_EmptyWorkspaceShowsNothing ==
    (/\ host = "Home"
     /\ erdData # NullData
     /\ NoDatabaseInWorkspace(erdData, selectedWorkspace))
        => /\ filteredDatabases(erdData, selectedWorkspace) = <<>>
           /\ filteredTables(erdData, selectedWorkspace, selectedDatabase) = <<>>
           /\ error = NullData

\* The payload of the one-database scenario: no database or workspace list,
\* tables that all carry the same database_id and workspace_id and no name for
\* either.
OneUnnamedScope(data) ==
    /\ data # NullData
    /\ data[2].databases = Undefined
    /\ data[2].workspaces = Undefined
    /\ data[2].tables[1] = "array"
    /\ Len(TablesOf(data)) > 0
    /\ \A t \in Range(TablesOf(data)) :
          /\ SameId(t.database_id, TablesOf(data)[1].database_id)
          /\ SameId(t.workspace_id, TablesOf(data)[1].workspace_id)
          /\ t.database_name = Undefined
          /\ t.workspace_name = Undefined

\* The relationships of the payload between two of its tables.
RelationshipsAmong(data) ==
    LET isTable(id) == \E t \in Range(TablesOf(data)) : SameId(t.id, id)
    IN SelectSeq(data[2].relationships[2],
           LAMBDA rel : isTable(rel.source_table_id) /\ isTable(rel.target_table_id))

\* Edge i runs from the node of rel's source table to the node of its target
\* table and carries the field name.
EdgeJoins(edge, rel, ns, ts) ==
    /\ edge.label = rel.field_name
    /\ \E i \in 1..Len(ns) : ns[i].id = edge.source /\ SameId(ts[i].id, rel.source_table_id)
    /\ \E i \in 1..Len(ns) : ns[i].id = edge.target /\ SameId(ts[i].id, rel.target_table_id)

\* C25: with nothing selected, tables of one unnamed database and workspace
\* give one database "Database {id}" and one workspace "Workspace {id}", every
\* table, every relationship between tables of the payload, and one edge per
\* such relationship from its source node to its target node.
C25_OneUnnamedDatabaseScenario ==
    (/\ host = "Home"
     /\ OneUnnamedScope(erdData)
     /\ selectedWorkspace = All
     /\ selectedDatabase = All)
        => LET ts == TablesOf(erdData)
               among == RelationshipsAmong(erdData)
           IN /\ Len(allDatabases(erdData)) = 1
              /\ allDatabases(erdData)[1].name
                 = Template("Database ", Number(ts[1].database_id))
              /\ Len(allWorkspaces(erdData)) = 1
              /\ allWorkspaces(erdData)[1].name
                 = Template("Workspace ", Number(ts[1].workspace_id))
              /\ filteredTables(erdData, All, All) = ts
              /\ dgmMounted =>
                    /\ filteredRelationships(relationships, tables) = among
                    /\ Len(edges) = Len(among)
                    /\ \A i \in 1..Len(edges) : EdgeJoins(edges[i], among[i], nodes, ts)

\* C26: right after a setWorkspace or setDatabase that changed the selection,
\* whatever was dragged before, the nodes are those of the new filtered tables,
\* each at the grid position of its index; no moved position is left.
C26_LayoutRederivedOnFilterChange ==
    (/\ host \in {"Home", "ERDDiagram"}
     /\ dgmMounted
     /\ lastOp.op \in {"setWorkspace", "setDatabase"})
        => /\ OnGrid(NodeTables, nodes, 50, 50, 300, 400)
           /\ ~NodesMoved

\* C26 witness: a filter change that found a node moved and kept every table,
\* the moved node's among them, in the new filtered set.
C26_Witness ==
    /\ host = "ERDDiagram"
    /\ lastOp.op = "setWorkspace"
    /\ lastOp.moved
    /\ dgmSelectedWorkspace # All
    /\ Len(nodes) >= 2
    /\ Len(nodes) = Len(tables)

\* C27: setWorkspace is idempotent: applied to the state a setWorkspace(w) has
\* just produced, setWorkspace(w) leaves the workspace and the database
\* selection as they are.
C27_SetWorkspaceIdempotent ==
    [][(/\ lastOp.op = "setWorkspace"
        /\ CurrentWorkspace = lastOp.arg
        /\ (handleWorkspaceChange(lastOp.arg) \/ dgmHandleWorkspaceChange(lastOp.arg)))
           => /\ CurrentWorkspace' = CurrentWorkspace
              /\ CurrentDatabase' = CurrentDatabase]_vars

\* C27 witness: setWorkspace(w) has been applied once to a state with a database
\* selected, and w is still on offer to be applied again.
C27_Witness ==
    /\ host = "Home"
    /\ mounted
    /\ lastOp.op = "setWorkspace"
    /\ lastOp.arg # All
    /\ lastOp.found # All
    /\ lastOp.arg \in WorkspaceOptions
    /\ selectedWorkspace = lastOp.arg
    /\ selectedDatabase = All

\* The id is that of a node of the rendered graph.
IsNodeId(id) == \E i \in 1..Len(nodes) : nodes[i].id = id

\* C28: in the filtering diagram, on its own or inside Home, every edge of the
\* graph on screen starts and ends at a node of that graph, and there are as
\* many nodes as filtered tables.
C28_NoDanglingEdge ==
    host \in {"Home", "ERDDiagram"} /\ dgmMounted =>
        /\ \A i \in 1..Len(edges) : IsNodeId(edges[i].source) /\ IsNodeId(edges[i].target)
        /\ Len(nodes) = Len(VisibleTables)

\* C28 witness: the diagram's own filter has dropped a table and the graph
\* still holds an edge.
C28_Witness ==
    /\ host = "ERDDiagram"
    /\ lastOp.op \in {"setWorkspace", "setDatabase"}
    /\ dgmSelectedWorkspace # All
    /\ Len(nodes) < Len(tables)
    /\ Len(edges) > 0

\* C29: no state has the workspace selection 'all' with a database selected,
\* and a setDatabase leaves the workspace selection as it found it.
C29_NoDatabaseWithoutWorkspace ==
    /\ (CurrentWorkspace = All => CurrentDatabase = All)
    /\ (lastOp.op = "setDatabase" =>
           /\ CurrentWorkspace = lastOp.found
           /\ CurrentDatabase = lastOp.arg)

\* C29 witness: the workspace set back to 'all' while a database was selected.
C29_Witness ==
    /\ host = "Home"
    /\ lastOp.op = "setWorkspace"
    /\ lastOp.arg = All
    /\ lastOp.found # All
    /\ selectedWorkspace = All
    /\ selectedDatabase = All

\* C30: once the fetch started on mount has settled, loading is off and the
\* component is in exactly one of two states: data set with no error, or an
\* error with no data.
C30_FetchSettlesOneWay ==
    fetch = "settled" =>
        /\ isLoading = FALSE
        /\ IF host = "Home"
           THEN \/ erdData # NullData /\ error = NullData
                \/ erdData = NullData /\ error # NullData
           ELSE \/ error = NullData /\ appName # Text("")
                \/ error # NullData /\ appName = Text("") /\ nodes = <<>> /\ edges = <<>>

====
